---- MODULE Spec2Model ----
(***************************************************************************)
(* Model of the DNSASM C reference implementation (src/dnsasm/src/dnsasm.c) *)
(* : header, name, question and resource-record parsing, the builders and  *)
(* the name comparison and lookup.                                         *)
(*                                                                         *)
(* A packet is a sequence of bytes; C index i is TLA+ index i + 1.  The    *)
(* buffer `packet` may hold more bytes than the declared length `len`, so  *)
(* that a read at or past `len` is visible as a read of a byte that is     *)
(* there but does not belong to the packet.                                *)
(***************************************************************************)
EXTENDS Integers, Sequences, FiniteSets, TLC

(***************************************************************************)
(* Program constants                                                       *)
(***************************************************************************)
DNS_HEADER_SIZE == 12
DNS_MAX_NAME_LEN == 255
DNS_TYPE_A == 1
DNS_CLASS_IN == 1
DNSASM_OK == 0
DNSASM_ERR_SHORT == -1
DNSASM_ERR_NAME == -2
DNSASM_ERR_POINTER == -3
DNSASM_ERR_LOOP == -4
DNSASM_ERR_OVERFLOW == -5
\* the literal 127 of `++ptr_count > 127`
MAX_PTR_HOPS == 127
\* the literal 63 of `label_len > 63`
MAX_LABEL_LEN == 63
\* the literal 0xC0 of `(label_len & 0xC0) == 0xC0`
PTR_MASK == 192

(***************************************************************************)
(* Bounds of the model                                                     *)
(***************************************************************************)
\* longest exhaustively enumerated name part of a packet
MaxNameLen == 3

(***************************************************************************)
(* Helpers                                                                 *)
(***************************************************************************)
Max(a, b) == IF a >= b THEN a ELSE b

\* value of a caller's output field that the callee has not written
Untouched == 0 - 1

\* packet[i]; a byte beyond the buffer itself reads as an arbitrary fixed value
Byte(packet, i) == IF i >= 0 /\ i < Len(packet) THEN packet[i + 1] ELSE 170

\* (x >> 8) | (x << 8) on uint16_t
bswap16(x) == ((x \div 256) + (x * 256)) % 65536

\* a uint32_t is kept as its two 16-bit halves [hi, lo]: value hi * 65536 + lo
\* the four masked shifts of bswap32: the bytes of the word in reverse order
bswap32(x) == [hi |-> bswap16(x.lo), lo |-> bswap16(x.hi)]

\* (uint32_t) of a size_t; every size_t of the model is below 2^31, where the
\* conversion changes nothing
U32(x) == x

\* *(const uint16_t *)(packet + i) on the little-endian targets of the library
Load16(packet, i) == Byte(packet, i) + 256 * Byte(packet, i + 1)

\* *(const uint32_t *)(packet + i) on the little-endian targets of the library
Load32(packet, i) == [lo |-> Load16(packet, i), hi |-> Load16(packet, i + 2)]

(***************************************************************************)
(* dnsasm_decompress_name                                                  *)
(***************************************************************************)
\* (label_len & 0xC0) == 0xC0
IsPointer(label_len) == label_len >= PTR_MASK

\* the hop test one too early: ++ptr_count >= 127
HopLimitExceeded_Early(ptr_count) == ptr_count >= MAX_PTR_HOPS

\* ++ptr_count > 127, on the incremented counter
HopLimitExceeded(ptr_count) == ptr_count > MAX_PTR_HOPS

\* the direction test that lets a pointer refer to itself: ptr > pos
NotBackward_AllowSelf(ptr, pos) == ptr > pos

\* no direction test at all
NotBackward_Unchecked(ptr, pos) == FALSE

\* ptr >= pos : the pointer does not point backwards
NotBackward(ptr, pos) == ptr >= pos

\* pos + 1 >= len : the second byte of the pointer is outside the packet
PointerTruncated(pos, len) == pos + 1 >= len

\* label_len > 63
LabelTooLong(label_len) == label_len > MAX_LABEL_LEN

\* the bounds check without the length byte: pos + label_len > len
LabelOutOfPacket_NoLengthByte(pos, label_len, len) == pos + label_len > len

\* pos + 1 + label_len > len
LabelOutOfPacket(pos, label_len, len) == pos + 1 + label_len > len

\* out_pos + 1 + label_len > DNS_MAX_NAME_LEN
OutputOverflow(out_pos, label_len) == out_pos + 1 + label_len > DNS_MAX_NAME_LEN

\* locals of the call and the caller's out / out_len, before the first iteration
DecompressInit(offset) ==
    [ pos           |-> offset,
      out_pos       |-> 0,
      wire_len      |-> 0,
      counting_wire |-> 1,
      ptr_count     |-> 0,
      out           |-> << >>,        \* bytes written to out[0 ..]
      out_len       |-> Untouched,    \* *out_len
      error         |-> DNSASM_OK,    \* result.error
      roffset       |-> 0,            \* result.offset
      fin           |-> FALSE,        \* the call has returned
      readHi        |-> Untouched,    \* highest packet index read so far
      visited       |-> {},           \* offsets at which a length byte was read
      revisit       |-> FALSE,        \* a length byte was read twice at one offset
      first_ptr     |-> Untouched,    \* offset of the first pointer followed
      moved_fwd     |-> FALSE ]       \* a pointer moved the cursor to >= its offset

\* return with an error: result = {error, 0}
Fail(s, e) == [s EXCEPT !.error = e, !.fin = TRUE]

\* the statements after the loop: *out_len, result.offset, result.error
Finish(s) ==
    [s EXCEPT !.out_len = s.out_pos % 65536,
              !.roffset = U32(s.wire_len),
              !.error = DNSASM_OK,
              !.fin = TRUE]

\* a pointer branch that never freezes the consumed-byte count
PointerStep_NoFreeze(packet, len, s, label_len) ==
    IF PointerTruncated(s.pos, len) THEN Fail(s, DNSASM_ERR_SHORT)
    ELSE
      LET ptr == ((label_len % 64) * 256 + Byte(packet, s.pos + 1)) % 65536
          s1  == [s EXCEPT !.readHi = Max(@, s.pos + 1),
                           !.wire_len = @ + 2,
                           !.first_ptr = IF @ = Untouched THEN s.pos ELSE @,
                           !.ptr_count = @ + 1]
      IN  IF s1.ptr_count > MAX_PTR_HOPS THEN Fail(s1, DNSASM_ERR_LOOP)
          ELSE IF ptr >= s.pos THEN Fail(s1, DNSASM_ERR_POINTER)
          ELSE [s1 EXCEPT !.pos = ptr]

\* a pointer branch that follows every pointer: no hop count, no direction check
PointerStep_FollowAll(packet, len, s, label_len) ==
    IF PointerTruncated(s.pos, len) THEN Fail(s, DNSASM_ERR_SHORT)
    ELSE
      LET ptr == ((label_len % 64) * 256 + Byte(packet, s.pos + 1)) % 65536
      IN  [s EXCEPT !.readHi = Max(@, s.pos + 1),
                    !.wire_len = IF s.counting_wire = 1 THEN @ + 2 ELSE @,
                    !.counting_wire = 0,
                    !.first_ptr = IF s.counting_wire = 1 THEN s.pos ELSE @,
                    !.pos = ptr,
                    !.moved_fwd = @ \/ ptr >= s.pos]

\* the compression-pointer branch of the loop body
PointerStep(packet, len, s, label_len) ==
    IF PointerTruncated(s.pos, len) THEN Fail(s, DNSASM_ERR_SHORT)
    ELSE
      LET ptr == ((label_len % 64) * 256 + Byte(packet, s.pos + 1)) % 65536
          s1  == [s EXCEPT !.readHi = Max(@, s.pos + 1),
                           !.wire_len = IF s.counting_wire = 1 THEN @ + 2 ELSE @,
                           !.counting_wire = 0,
                           !.first_ptr = IF s.counting_wire = 1 THEN s.pos ELSE @,
                           !.ptr_count = @ + 1]
      IN  IF HopLimitExceeded(s1.ptr_count) THEN Fail(s1, DNSASM_ERR_LOOP)
          ELSE IF NotBackward(ptr, s.pos) THEN Fail(s1, DNSASM_ERR_POINTER)
          ELSE [s1 EXCEPT !.pos = ptr, !.moved_fwd = @ \/ ptr >= s.pos]

\* the end-of-name branch: write the terminator, break, finish
TerminatorStep(s) ==
    Finish([s EXCEPT !.out = Append(@, 0),
                     !.out_pos = @ + 1,
                     !.wire_len = IF s.counting_wire = 1 THEN @ + 1 ELSE @])

\* the consumed count without the length byte
LabelWire_NoLengthByte(label_len) == label_len

\* bytes added to the consumed count by a copied label
LabelWire(label_len) == 1 + label_len

\* the regular-label branch of the loop body
LabelStep(packet, len, s, label_len) ==
    IF LabelTooLong(label_len) THEN Fail(s, DNSASM_ERR_NAME)
    ELSE IF LabelOutOfPacket(s.pos, label_len, len) THEN Fail(s, DNSASM_ERR_SHORT)
    ELSE IF OutputOverflow(s.out_pos, label_len) THEN Fail(s, DNSASM_ERR_OVERFLOW)
    ELSE [s EXCEPT !.out = @ \o <<label_len>>
                            \o [i \in 1..label_len |-> Byte(packet, s.pos + i)],
                   !.out_pos = @ + 1 + label_len,
                   !.readHi = Max(@, s.pos + label_len),
                   !.wire_len = IF s.counting_wire = 1 THEN @ + LabelWire(label_len) ELSE @,
                   !.pos = @ + 1 + label_len]

\* one evaluation of the loop condition and, if it holds, of the loop body
DecompressStep(packet, len, s) ==
    IF ~(s.pos < len) THEN Finish(s)
    ELSE
      LET label_len == Byte(packet, s.pos)
          s0 == [s EXCEPT !.readHi = Max(@, s.pos),
                          !.revisit = @ \/ s.pos \in s.visited,
                          !.visited = @ \cup {s.pos}]
      IN  IF IsPointer(label_len) THEN PointerStep(packet, len, s0, label_len)
          ELSE IF label_len = 0 THEN TerminatorStep(s0)
          ELSE LabelStep(packet, len, s0, label_len)

(***************************************************************************)
(* dnsasm_parse_question                                                   *)
(***************************************************************************)
\* a dnsasm_question_t none of whose fields has been written
QuestionInit ==
    [ name |-> << >>, name_len |-> Untouched, qtype |-> Untouched,
      qclass |-> Untouched, wire_len |-> Untouched ]

\* the room test one too strict: pos + 4 >= len
NoRoomForQuestion_Strict(pos, len) == pos + 4 >= len

\* pos + 4 > len : no room for qtype + qclass
NoRoomForQuestion(pos, len) == pos + 4 > len

\* result.offset of a successful dnsasm_parse_question
QuestionEnd(pos) == U32(pos + 4)

\* the whole call; d is the result of the inner dnsasm_decompress_name
ParseQuestion(packet, len, offset, d) ==
    LET o1 == [QuestionInit EXCEPT !.name = d.out, !.name_len = d.out_len]
        wire_len == d.roffset
        pos == offset + wire_len
    IN  IF d.error # DNSASM_OK
        THEN [out |-> o1, error |-> d.error, roffset |-> d.roffset, readHi |-> d.readHi]
        ELSE IF NoRoomForQuestion(pos, len)
        THEN [out |-> o1, error |-> DNSASM_ERR_SHORT, roffset |-> 0, readHi |-> d.readHi]
        ELSE [out |-> [o1 EXCEPT !.qtype = bswap16(Load16(packet, pos)),
                                 !.qclass = bswap16(Load16(packet, pos + 2)),
                                 !.wire_len = (wire_len + 4) % 65536],
              error |-> DNSASM_OK,
              roffset |-> QuestionEnd(pos),
              readHi |-> Max(d.readHi, pos + 3)]

(***************************************************************************)
(* dnsasm_parse_rr                                                         *)
(***************************************************************************)
\* a dnsasm_rr_t none of whose fields has been written
RRInit ==
    [ name |-> << >>, name_len |-> Untouched, rtype |-> Untouched,
      rclass |-> Untouched, ttl |-> [hi |-> Untouched, lo |-> Untouched], rdlength |-> Untouched,
      rdata |-> Untouched, wire_len |-> Untouched ]

\* pos + 10 > len : no room for type, class, ttl, rdlength
NoRoomForFixed(pos, len) == pos + 10 > len

\* pos + out->rdlength > len : no room for rdata
NoRoomForRdata(pos, rdlength, len) == pos + rdlength > len

\* the whole call; d is the result of the inner dnsasm_decompress_name.
\* out.rdata is the packet offset the rdata pointer refers to.
ParseRR(packet, len, offset, d) ==
    LET o1 == [RRInit EXCEPT !.name = d.out, !.name_len = d.out_len]
        wire_len == d.roffset
        pos == offset + wire_len
        o2 == [o1 EXCEPT !.rtype = bswap16(Load16(packet, pos)),
                         !.rclass = bswap16(Load16(packet, pos + 2)),
                         !.ttl = bswap32(Load32(packet, pos + 4)),
                         !.rdlength = bswap16(Load16(packet, pos + 8))]
        pos2 == pos + 10
    IN  IF d.error # DNSASM_OK
        THEN [out |-> o1, error |-> d.error, roffset |-> d.roffset, readHi |-> d.readHi]
        ELSE IF NoRoomForFixed(pos, len)
        THEN [out |-> o1, error |-> DNSASM_ERR_SHORT, roffset |-> 0, readHi |-> d.readHi]
        ELSE IF NoRoomForRdata(pos2, o2.rdlength, len)
        THEN [out |-> o2, error |-> DNSASM_ERR_SHORT, roffset |-> 0,
              readHi |-> Max(d.readHi, pos + 9)]
        ELSE [out |-> [o2 EXCEPT !.rdata = pos2,
                                 !.wire_len = (wire_len + 10 + o2.rdlength) % 65536],
              error |-> DNSASM_OK,
              roffset |-> U32(pos2 + o2.rdlength),
              readHi |-> Max(d.readHi, pos + 9)]

(***************************************************************************)
(* dnsasm_parse_header, dnsasm_build_header                                *)
(***************************************************************************)
\* a dnsasm_header_t none of whose fields has been written
HeaderInit ==
    [ id |-> Untouched, flags |-> Untouched, qdcount |-> Untouched,
      ancount |-> Untouched, nscount |-> Untouched, arcount |-> Untouched,
      qr |-> Untouched, opcode |-> Untouched, aa |-> Untouched, tc |-> Untouched,
      rd |-> Untouched, ra |-> Untouched, rcode |-> Untouched ]

\* the length test one byte too lax: len < DNS_HEADER_SIZE - 1
HeaderTooShort_OneLess(len) == len < DNS_HEADER_SIZE - 1

\* len < DNS_HEADER_SIZE
HeaderTooShort(len) == len < DNS_HEADER_SIZE

\* (flags >> n) & 1
FlagBit(flags, n) == (flags \div (2 ^ n)) % 2

\* the opcode taken from three bits only: (flags >> 11) & 0x07
Opcode_ThreeBits(flags) == (flags \div 2048) % 8

\* (flags >> 11) & 0x0F
Opcode(flags) == (flags \div 2048) % 16

\* flags & 0x0F
Rcode(flags) == flags % 16

\* the whole call; out is the caller's dnsasm_header_t before the call
ParseHeader(packet, len, out) ==
    IF HeaderTooShort(len)
    THEN [out |-> out, ret |-> DNSASM_ERR_SHORT, readHi |-> Untouched]
    ELSE
      LET flags == bswap16(Load16(packet, 2))
      IN  [out |-> [out EXCEPT !.id      = bswap16(Load16(packet, 0)),
                               !.flags   = flags,
                               !.qdcount = bswap16(Load16(packet, 4)),
                               !.ancount = bswap16(Load16(packet, 6)),
                               !.nscount = bswap16(Load16(packet, 8)),
                               !.arcount = bswap16(Load16(packet, 10)),
                               !.qr      = FlagBit(flags, 15),
                               !.opcode  = Opcode(flags),
                               !.aa      = FlagBit(flags, 10),
                               !.tc      = FlagBit(flags, 9),
                               !.rd      = FlagBit(flags, 8),
                               !.ra      = FlagBit(flags, 7),
                               !.rcode   = Rcode(flags)],
           ret |-> DNSASM_OK,
           readHi |-> 10 + 1]

\* *(uint16_t *)(out + i) = x on the little-endian targets of the library:
\* the two bytes stored at out[i], out[i + 1]
Store16(x) == <<x % 256, x \div 256>>

\* the whole call: the bytes written to out[0 ..] and the returned size
BuildHeader(id, flags, qdcount, ancount, nscount, arcount) ==
    [ out |-> Store16(bswap16(id)) \o Store16(bswap16(flags))
                \o Store16(bswap16(qdcount)) \o Store16(bswap16(ancount))
                \o Store16(bswap16(nscount)) \o Store16(bswap16(arcount)),
      ret |-> DNS_HEADER_SIZE ]

(***************************************************************************)
(* dnsasm_build_a_record                                                   *)
(***************************************************************************)
\* the two halves of the word stored in the wrong order
Store32_HalvesSwapped(x) == Store16(x.hi) \o Store16(x.lo)

\* *(uint32_t *)(out + i) = x on the little-endian targets of the library:
\* the four bytes stored at out[i .. i + 3]
Store32(x) == Store16(x.lo) \o Store16(x.hi)

\* memcpy(dst, src, n): the n bytes copied
Memcpy(src, n) == [i \in 1..n |-> Byte(src, i - 1)]

\* the whole call: the bytes written to out[0 ..] and the returned pos
BuildARecord(name, name_len, ttl, ip) ==
    LET b1 == Memcpy(name, name_len)
        b2 == b1 \o Store16(bswap16(DNS_TYPE_A))
        b3 == b2 \o Store16(bswap16(DNS_CLASS_IN))
        b4 == b3 \o Store32(bswap32(ttl))
        b5 == b4 \o Store16(bswap16(4))
        b6 == b5 \o Memcpy(ip, 4)
    IN  [ out |-> b6, ret |-> name_len + 2 + 2 + 4 + 2 + 4 ]

(***************************************************************************)
(* dnsasm_name_equal                                                       *)
(***************************************************************************)
\* the case fold over one position too many on each side: '@' .. '['
ToLower_WideRange(c) == IF c >= 64 /\ c <= 91 THEN (c + 32) % 256 ELSE c

\* if (c >= 'A' && c <= 'Z') c += 32, on uint8_t
ToLower(c) == IF c >= 65 /\ c <= 90 THEN (c + 32) % 256 ELSE c

\* the whole call: 1 on different lengths or at the first index whose folded
\* bytes differ, 0 when the loop runs to its end
NameEqual(a, a_len, b, b_len) ==
    IF a_len # b_len THEN 1
    ELSE IF \E i \in 0..(a_len - 1) : ToLower(Byte(a, i)) # ToLower(Byte(b, i)) THEN 1
    ELSE 0

(***************************************************************************)
(* dnsasm_name_find                                                        *)
(***************************************************************************)
\* the locals of the call before the first iteration of the for loop
NameFindInit(needle, haystack) ==
    [ needle     |-> needle,
      needle_len |-> Len(needle),
      haystack   |-> haystack,        \* the entries haystack[0 ..] point to
      count      |-> Len(haystack),
      i          |-> 0,
      pos        |-> 0,
      ret        |-> 0,               \* the int returned
      fin        |-> FALSE,           \* the call has returned
      readHi     |-> Untouched,       \* highest entry index read by a walk
      lenHi      |-> 0,               \* greatest hay_len derived
      oob        |-> FALSE ]          \* a walk read past the end of an entry

\* haystack[i]
Hay(s) == s.haystack[s.i + 1]

\* what a read past the end of an entry's buffer may yield
OutOfBoundsBytes == {0, 255}

\* the values hay[pos] may yield
HayByte(s) ==
    IF s.pos < Len(Hay(s)) THEN {Hay(s)[s.pos + 1]} ELSE OutOfBoundsBytes

\* the read of hay[pos] by the loop condition
ReadHay(s) ==
    [s EXCEPT !.readHi = Max(@, s.pos), !.oob = @ \/ s.pos >= Len(Hay(s))]

\* hay[pos] != 0 && pos < DNS_MAX_NAME_LEN, v the byte read at hay[pos]
WalkContinues(v, pos) == v # 0 /\ pos < DNS_MAX_NAME_LEN

\* the length without the terminator: hay_len = pos
HayLen_NoTerminator(pos) == pos

\* hay_len = pos + 1
HayLen(pos) == pos + 1

\* the body of the while loop: pos += 1 + hay[pos]
WalkStep(s, v) == [ReadHay(s) EXCEPT !.pos = @ + 1 + v]

\* the exit of the while loop, the comparison, and the return or the next i
CompareStep(s) ==
    LET s1 == ReadHay(s)
        hay_len == HayLen(s.pos)
        s2 == [s1 EXCEPT !.lenHi = Max(@, hay_len)]
    IN  IF NameEqual(s.needle, s.needle_len, Hay(s), hay_len) = 0
        THEN [s2 EXCEPT !.ret = s.i, !.fin = TRUE]
        ELSE [s2 EXCEPT !.i = @ + 1, !.pos = 0]

\* the exit of the for loop: return -1
NotFoundStep(s) == [s EXCEPT !.ret = 0 - 1, !.fin = TRUE]

(***************************************************************************)
(* Inputs                                                                  *)
(***************************************************************************)
\* byte values of the enumerated name parts: terminator (and pointer target 0),
\* label length 1 (and pointer target 1), an over-long label length, a pointer
Alphabet == {0, 1, 64, 192}

Names == UNION {[1..n -> Alphabet] : n \in 0..MaxNameLen}

\* qtype AAAA, qclass IN
QTrailer == <<0, 28, 0, 1>>

\* type A, class IN, ttl 300, rdlength 2, two bytes of rdata
RRTrailer == <<0, 1, 0, 1, 0, 0, 1, 44, 0, 2, 93, 184>>

Trailers == {QTrailer, RRTrailer}

Rep(b, n) == [i \in 1..n |-> b]

\* a label of length n filled with the byte b
Label(n, b) == <<n>> \o Rep(b, n)

\* sample_query of the console's test suite
SampleQuery ==
    <<18, 52, 1, 0, 0, 1, 0, 0, 0, 0, 0, 0,
      3, 119, 119, 119, 7, 101, 120, 97, 109, 112, 108, 101, 3, 99, 111, 109, 0,
      0, 1, 0, 1>>

\* sample_response of the console's test suite
SampleResponse ==
    <<18, 52, 129, 128, 0, 1, 0, 1, 0, 0, 0, 0,
      3, 119, 119, 119, 7, 101, 120, 97, 109, 112, 108, 101, 3, 99, 111, 109, 0,
      0, 1, 0, 1,
      192, 12, 0, 1, 0, 1, 0, 0, 1, 44, 0, 4, 93, 184, 216, 34>>

\* labels of the given lengths, a terminator, a question trailer
LabelsPacket(lens) ==
    LET RECURSIVE Cat(_)
        Cat(i) == IF i > Len(lens) THEN <<0>> \o QTrailer
                  ELSE Label(lens[i], 97) \o Cat(i + 1)
    IN  Cat(1)

\* a terminator at 0, then pointers at 2, 4, ..., 2k, each to the offset two
\* below it: starting at 2n the name takes n hops to the terminator
ChainPacket(k) ==
    [i \in 1..(2 * k + 2) |->
        IF i <= 2 THEN 0
        ELSE IF i % 2 = 1 THEN PTR_MASK + ((i - 3) \div 256)
        ELSE (i - 4) % 256]

\* a 63-byte label at 0 whose data holds the pointers 62 -> 60 -> ... -> 2 -> 0,
\* followed at 64 by a pointer to 62: labels and pointers form a cycle
CyclePacket ==
    [i \in 1..66 |->
        IF i = 1 THEN MAX_LABEL_LEN
        ELSE IF i = 2 THEN 97
        ELSE IF i % 2 = 1 THEN PTR_MASK
        ELSE i - 4]

\* "a" at 0; "b" + pointer to 0 at 3; pointer to 5 at 7; "c" + pointer to 7 at 9
PointerPacket == <<1, 97, 0, 1, 98, 192, 0, 192, 5, 1, 99, 192, 7>>

\* offsets of the 127 pointers of HopsThenTruncatedPacket
HopStarts ==
    {16127, 16128, 16129} \cup {16132 + 2 * i : i \in 0..61}
        \cup {16257 + 2 * i : i \in 0..30} \cup {16320 + 2 * i : i \in 0..30}

\* each of these pointers refers to the pointer (or, the lowest, to the label)
\* just below it
HopTarget(s) ==
    IF s <= 16129 THEN s - 1
    ELSE IF s \in {16132, 16257, 16320} THEN s - 3
    ELSE s - 2

\* 127 backward pointers from 16380 down to a label at 16126, whose chain of
\* five labels (255 output bytes) climbs back through the low bytes of the
\* pointers and ends on the last byte of the packet, 0xFA: a pointer byte met
\* after 127 hops with no second byte
HopsThenTruncatedPacket ==
    [i \in 1..16382 |->
        LET p == i - 1
        IN  IF p \in HopStarts THEN PTR_MASK + (HopTarget(p) \div 256)
            ELSE IF (p - 1) \in HopStarts THEN HopTarget(p - 1) % 256
            ELSE IF p = 16126 THEN 4
            ELSE IF p \in {16131, 16319} THEN 61
            ELSE IF p = 16256 THEN 62
            ELSE 0]

\* a record of 65536 bytes: the root name, type A, class IN, ttl 300,
\* rdlength 65525 and that many bytes of rdata
LongRdataPacket ==
    [i \in 1..65536 |->
        IF i = 1 THEN 0
        ELSE IF i <= 11 THEN <<0, 1, 0, 1, 0, 0, 1, 44, 255, 245>>[i - 1]
        ELSE 7]

\* a 2-byte label at 0 whose data is a pointer to 0, then a pointer to 1: a
\* cycle of two hops for three output bytes
TwoHopCyclePacket == <<2, 192, 0, 192, 1>>

\* packets given with their start offsets
Crafted ==
    << [packet |-> SampleQuery, offsets |-> {12}],
      [packet |-> SampleResponse, offsets |-> {12, 33}],
      [packet |-> LabelsPacket(<<63, 63, 63, 61>>), offsets |-> {0}],
      [packet |-> LabelsPacket(<<63, 63, 63, 62>>), offsets |-> {0}],
      [packet |-> LabelsPacket(<<63, 63, 63, 63>>), offsets |-> {0}],
      [packet |-> ChainPacket(MAX_PTR_HOPS + 1) \o QTrailer,
       offsets |-> {2 * (MAX_PTR_HOPS - 1), 2 * MAX_PTR_HOPS, 2 * (MAX_PTR_HOPS + 1)}],
      [packet |-> CyclePacket, offsets |-> {0, 64}],
      [packet |-> <<1, 1, 192, 0>>, offsets |-> {0, 2}],
      [packet |-> PointerPacket \o QTrailer, offsets |-> {3, 5, 7, 9}],
      [packet |-> PointerPacket \o RRTrailer, offsets |-> {3, 9}],
      [packet |-> HopsThenTruncatedPacket, offsets |-> {16380}],
      [packet |-> LongRdataPacket, offsets |-> {0}],
      [packet |-> TwoHopCyclePacket, offsets |-> {0, 3}] >>

\* by how many bytes the declared length may fall short of the buffer
Cuts == {0, 1}

\* declared lengths tried for the name part n followed by the trailer t
LenChoices(n, t) ==
    {Len(n) + Len(t) - c : c \in Cuts} \cup (IF t = QTrailer THEN 0..Len(n) ELSE {})

\* the caller's buffers: an enumerated name part followed by a trailer
\* (crafted = 0), or the crafted packet of the given number
NameBuffer(n, t) == [name |-> n, trailer |-> t, crafted |-> 0]
CraftedBuffer(k) == [name |-> << >>, trailer |-> << >>, crafted |-> k]

\* the bytes held by a buffer
BufferBytes(b) ==
    IF b.crafted = 0 THEN b.name \o b.trailer ELSE Crafted[b.crafted].packet

\* a buffer nothing has been written to yet
FreshBuffer == NameBuffer(<< >>, << >>)

\* every enumerated name part with every trailer, declared length and start
\* offset, the crafted packets, and a fresh buffer
Inputs ==
    { [buf |-> FreshBuffer, len |-> 0, offset |-> 0] }
    \cup
    UNION { { [buf |-> NameBuffer(n, t), len |-> l, offset |-> o] :
                l \in LenChoices(n, t), o \in 0..Len(n) } :
            n \in Names, t \in Trailers }
    \cup
    UNION { { [buf |-> CraftedBuffer(k), len |-> l, offset |-> o] :
                l \in {Len(Crafted[k].packet) - c : c \in Cuts},
                o \in Crafted[k].offsets } :
            k \in 1..Len(Crafted) }

\* header flags words: none, all, the reserved bits 4..6, the samples'
\* flags and every single bit
HeaderFlags == {0, 65535, 112, 256, 33152} \cup {2 ^ k : k \in 0..15}

\* id, qdcount, ancount, nscount, arcount: all equal, all different, and one
\* byte of one field set
HeaderWords ==
    { <<0, 0, 0, 0, 0>>, <<65535, 65535, 65535, 65535, 65535>>,
      <<4660, 1, 2, 3, 4>>, <<258, 772, 1286, 1800, 2314>> }
    \cup { [i \in 1..5 |-> IF i = k THEN v ELSE 0] : k \in 1..5, v \in {255, 65280} }

\* '@', 'A', 'Z', '[' and the bytes 32 above them: '`', 'a', 'z', '{'
EqBytes == {64, 65, 90, 91, 96, 97, 122, 123}

\* byte strings compared: empty, one byte, two bytes around 'A', and the
\* label www in three spellings
EqStrings ==
    { << >> } \cup { <<c>> : c \in EqBytes }
    \cup { <<c, e>> : c \in {64, 65, 96, 97}, e \in {64, 65, 96, 97} }
    \cup { <<3, 87, 87, 87>>, <<3, 119, 119, 119>>, <<3, 87, 119, 87>> }

\* most entries of a haystack
MaxCount == 2

\* labels of the given lengths filled with 'a', without a terminator
Labels(lens) ==
    LET RECURSIVE Cat(_)
        Cat(i) == IF i > Len(lens) THEN << >> ELSE Label(lens[i], 97) \o Cat(i + 1)
    IN  Cat(1)

\* names given to dnsasm_build_a_record: the root, a, www.example.com, a
\* name of 255 bytes, a compression pointer, a name without terminator
RecordNames ==
    { <<0>>, <<1, 97, 0>>, SubSeq(SampleQuery, 13, 29),
      Labels(<<63, 63, 63, 61>>) \o <<0>>, <<192, 12>>, <<1, 97>> }

\* TTLs, as [hi, lo]: 0, 300, 0x01020304, 0x80000000, 0xFFFFFFFF
RecordTtls ==
    { [hi |-> 0, lo |-> 0], [hi |-> 0, lo |-> 300], [hi |-> 258, lo |-> 772],
      [hi |-> 32768, lo |-> 0], [hi |-> 65535, lo |-> 65535] }

\* IPv4 addresses
RecordAddresses == { <<93, 184, 216, 34>>, <<0, 0, 0, 0>>, <<255, 255, 255, 255>> }

\* a name of 256 bytes, the terminator at index 255
Name256 == Labels(<<63, 63, 63, 62>>) \o <<0>>

\* a name of 259 bytes, whose walk is at index 256 before its last label
Name259 == Labels(<<63, 63, 63, 63, 1>>) \o <<0>>

\* a label whose length byte is the letter 'A', a terminator
NameLengthA == <<65>> \o Rep(120, 65) \o <<0>>

\* haystack entries: the root, a, A, b, a with bytes behind the terminator,
\* an entry with no terminator, and the long ones
FindEntries ==
    { <<0>>, <<1, 97, 0>>, <<1, 65, 0>>, <<1, 98, 0>>, <<1, 97, 0, 5, 5>>,
      <<1, 97>>, NameLengthA, Name256, Name259 }

\* needles: names equal to an entry, to a part of one, or to none
FindNeedles ==
    { <<0>>, <<1, 97, 0>>, <<1, 66, 0>>, <<1, 97, 0, 5, 5>>, <<1, 97, 255>>,
      <<97>> \o Rep(120, 65) \o <<0>>, Name256, Name259,
      SubSeq(Name259, 1, 257) }

Haystacks == UNION {[1..n -> FindEntries] : n \in 0..MaxCount}

(***************************************************************************)
(* State machine                                                           *)
(***************************************************************************)
VARIABLES
    buf,      \* the buffer the argument `packet` points to
    len,      \* the declared packet length
    offset,   \* the start offset
    pc,       \* "idle", "decompress" (in its loop), "parse" (after it), "find" (in
              \* the loops of dnsasm_name_find), "done"
    op,       \* the function called: "none", "decompress", "question", "rr",
              \* "header", "equal", "find"
    st,       \* dnsasm_decompress_name: locals, out, out_len, result
    q,        \* the caller's dnsasm_question_t
    rr,       \* the caller's dnsasm_rr_t
    res,      \* the dnsasm_result_t returned by the call, and its highest read
    hdr,      \* the caller's dnsasm_header_t
    hret,     \* the int returned by dnsasm_parse_header, and its highest read
    built,    \* the builder that wrote the buffer, its arguments and return
    eq,       \* dnsasm_name_equal: its arguments and the int it returned
    nf        \* dnsasm_name_find: its arguments, locals and return

vars == <<buf, len, offset, pc, op, st, q, rr, res, hdr, hret, built, eq, nf>>

\* what the calls on packets leave alone
nvars == <<eq, nf>>

EqInit == [a |-> << >>, b |-> << >>, ret |-> Untouched]

\* what the calls on names, questions and records leave alone
hvars == <<hdr, hret, built>>

HRetInit == [ret |-> DNSASM_OK, readHi |-> Untouched]

BuiltInit == [fn |-> "none", args |-> << >>, ret |-> 0]

\* the bytes the argument `packet` points to
packet == BufferBytes(buf)

ResInit == [error |-> DNSASM_OK, roffset |-> 0, readHi |-> Untouched]

Init ==
    /\ \E i \in Inputs :
          /\ buf = i.buf
          /\ len = i.len
          /\ offset = i.offset
    /\ pc = "idle"
    /\ op = "none"
    /\ st = DecompressInit(offset)
    /\ q = QuestionInit
    /\ rr = RRInit
    /\ res = ResInit
    /\ hdr = HeaderInit
    /\ hret = HRetInit
    /\ built = BuiltInit
    /\ eq = EqInit
    /\ nf = NameFindInit(<< >>, << >>)

\* the caller enters dnsasm_decompress_name
CallDecompressName ==
    /\ pc = "idle"
    /\ pc' = "decompress"
    /\ op' = "decompress"
    /\ st' = DecompressInit(offset)
    /\ UNCHANGED <<buf, len, offset, q, rr, res, hvars, nvars>>

\* the caller enters dnsasm_parse_question, which enters dnsasm_decompress_name
CallParseQuestion ==
    /\ pc = "idle"
    /\ pc' = "decompress"
    /\ op' = "question"
    /\ st' = DecompressInit(offset)
    /\ UNCHANGED <<buf, len, offset, q, rr, res, hvars, nvars>>

\* the caller enters dnsasm_parse_rr, which enters dnsasm_decompress_name
CallParseRR ==
    /\ pc = "idle"
    /\ pc' = "decompress"
    /\ op' = "rr"
    /\ st' = DecompressInit(offset)
    /\ UNCHANGED <<buf, len, offset, q, rr, res, hvars, nvars>>

\* one iteration of the loop of dnsasm_decompress_name, or its exit; when the
\* call was made by the caller itself, its return ends the operation
DecompressIter ==
    /\ pc = "decompress"
    /\ st' = DecompressStep(packet, len, st)
    /\ pc' = IF ~st'.fin THEN "decompress"
             ELSE IF op = "decompress" THEN "done" ELSE "parse"
    /\ res' = IF st'.fin /\ op = "decompress"
              THEN [error |-> st'.error, roffset |-> st'.roffset, readHi |-> st'.readHi]
              ELSE res
    /\ UNCHANGED <<buf, len, offset, op, q, rr, hvars, nvars>>

\* dnsasm_parse_question from the return of dnsasm_decompress_name to its own
ParseQuestionRest ==
    /\ pc = "parse"
    /\ op = "question"
    /\ LET r == ParseQuestion(packet, len, offset, st)
       IN  /\ q' = r.out
           /\ res' = [error |-> r.error, roffset |-> r.roffset, readHi |-> r.readHi]
    /\ pc' = "done"
    /\ UNCHANGED <<buf, len, offset, op, st, rr, hvars, nvars>>

\* dnsasm_parse_rr from the return of dnsasm_decompress_name to its own
ParseRRRest ==
    /\ pc = "parse"
    /\ op = "rr"
    /\ LET r == ParseRR(packet, len, offset, st)
       IN  /\ rr' = r.out
           /\ res' = [error |-> r.error, roffset |-> r.roffset, readHi |-> r.readHi]
    /\ pc' = "done"
    /\ UNCHANGED <<buf, len, offset, op, st, q, hvars, nvars>>

\* the caller calls dnsasm_parse_header on the buffer
CallParseHeader ==
    /\ pc = "idle"
    /\ LET r == ParseHeader(packet, len, hdr)
       IN  /\ hdr' = r.out
           /\ hret' = [ret |-> r.ret, readHi |-> r.readHi]
    /\ pc' = "done"
    /\ op' = "header"
    /\ UNCHANGED <<buf, len, offset, st, q, rr, res, built, nvars>>

\* the caller calls dnsasm_build_header on a fresh buffer, which becomes the
\* buffer of the calls that follow, with the returned size as its length
CallBuildHeader ==
    /\ pc = "idle"
    /\ buf = FreshBuffer
    /\ \E flags \in HeaderFlags, w \in HeaderWords :
          LET r == BuildHeader(w[1], flags, w[2], w[3], w[4], w[5])
          IN  /\ buf' = NameBuffer(r.out, << >>)
              /\ len' = r.ret
              /\ offset' = 0
              /\ built' = [fn |-> "header",
                           args |-> <<w[1], flags, w[2], w[3], w[4], w[5]>>,
                           ret |-> r.ret]
    /\ UNCHANGED <<pc, op, st, q, rr, res, hdr, hret, nvars>>

\* the caller calls dnsasm_name_equal on two byte strings and their lengths
CallNameEqual ==
    /\ pc = "idle"
    /\ buf = FreshBuffer
    /\ \E a \in EqStrings, b \in EqStrings :
          eq' = [a |-> a, b |-> b, ret |-> NameEqual(a, Len(a), b, Len(b))]
    /\ pc' = "done"
    /\ op' = "equal"
    /\ UNCHANGED <<buf, len, offset, st, q, rr, res, hvars, nf>>

\* the caller enters dnsasm_name_find
CallNameFind ==
    /\ pc = "idle"
    /\ buf = FreshBuffer
    /\ \E needle \in FindNeedles, haystack \in Haystacks :
          nf' = NameFindInit(needle, haystack)
    /\ pc' = "find"
    /\ op' = "find"
    /\ UNCHANGED <<buf, len, offset, st, q, rr, res, hvars, eq>>

\* one iteration of the while loop that walks the labels of haystack[i]
NameFindWalk ==
    /\ pc = "find"
    /\ nf.i < nf.count
    /\ \E v \in HayByte(nf) :
          /\ WalkContinues(v, nf.pos)
          /\ nf' = WalkStep(nf, v)
    /\ UNCHANGED <<buf, len, offset, pc, op, st, q, rr, res, hvars, eq>>

\* the end of the walk of haystack[i]: compare, return i or go on with i + 1
NameFindCompare ==
    /\ pc = "find"
    /\ nf.i < nf.count
    /\ \E v \in HayByte(nf) :
          /\ ~WalkContinues(v, nf.pos)
          /\ nf' = CompareStep(nf)
    /\ pc' = IF nf'.fin THEN "done" ELSE "find"
    /\ UNCHANGED <<buf, len, offset, op, st, q, rr, res, hvars, eq>>

\* no entry left: dnsasm_name_find returns -1
NameFindNotFound ==
    /\ pc = "find"
    /\ ~(nf.i < nf.count)
    /\ nf' = NotFoundStep(nf)
    /\ pc' = "done"
    /\ UNCHANGED <<buf, len, offset, op, st, q, rr, res, hvars, eq>>

\* the caller calls dnsasm_build_a_record on a fresh buffer, which becomes the
\* buffer of the calls that follow, with the returned size as its length
CallBuildARecord ==
    /\ pc = "idle"
    /\ buf = FreshBuffer
    /\ \E name \in RecordNames, ttl \in RecordTtls, ip \in RecordAddresses :
          LET r == BuildARecord(name, Len(name), ttl, ip)
          IN  /\ buf' = NameBuffer(r.out, << >>)
              /\ len' = r.ret
              /\ offset' = 0
              /\ built' = [fn |-> "a_record", args |-> <<name, ttl, ip>>, ret |-> r.ret]
    /\ UNCHANGED <<pc, op, st, q, rr, res, hdr, hret, nvars>>

Next ==
    \/ CallBuildARecord
    \/ CallNameFind
    \/ NameFindWalk
    \/ NameFindCompare
    \/ NameFindNotFound
    \/ CallNameEqual
    \/ CallParseHeader
    \/ CallBuildHeader
    \/ CallDecompressName
    \/ CallParseQuestion
    \/ CallParseRR
    \/ DecompressIter
    \/ ParseQuestionRest
    \/ ParseRRRest

Spec == Init /\ [][Next]_vars

\* the loop of a call that has been entered keeps running
FairSpec ==
    Spec /\ WF_vars(DecompressIter) /\ WF_vars(ParseQuestionRest) /\ WF_vars(ParseRRRest)

TypeOK ==
    /\ pc \in {"idle", "decompress", "parse", "find", "done"}
    /\ st.out_pos = Len(st.out)

(***************************************************************************)
(* Properties                                                              *)
(***************************************************************************)
\* dnsasm_decompress_name has returned (called directly or by a parser)
Returned == st.fin

\* dnsasm_decompress_name has returned success
Succeeded == st.fin /\ st.error = DNSASM_OK

\* C1: whenever dnsasm_decompress_name succeeds, the decompressed length it
\* reports (terminator included) is at most 255.
C1_OutLenWithinMax == Succeeded => st.out_len <= DNS_MAX_NAME_LEN

\* C2: whenever dnsasm_decompress_name succeeds, the decompressed name is
\* non-empty and its last byte is the zero-length terminator label.
C2_SuccessEndsWithTerminator ==
    Succeeded => /\ st.out_len > 0
                 /\ st.out_len <= Len(st.out)
                 /\ st.out[st.out_len] = 0

\* C3: packet bytes are read only at indices strictly below len, the name
\* output is written only at indices below DNS_MAX_NAME_LEN + 1, and on a
\* successful dnsasm_parse_rr the RDATA span lies inside [0, len).
C3_AccessesInBounds ==
    /\ st.readHi < len
    /\ res.readHi < len
    /\ Len(st.out) <= DNS_MAX_NAME_LEN + 1
    /\ (op = "rr" /\ pc = "done" /\ res.error = DNSASM_OK)
          => /\ rr.rdata >= 0
             /\ rr.rdata + rr.rdlength <= len

\* a successful dnsasm_parse_rr whose RDATA ends at the last byte of the
\* packet, after a name whose label ended at the last byte before the fields
C3_Witness ==
    /\ op = "rr" /\ pc = "done" /\ res.error = DNSASM_OK
    /\ rr.rdlength > 0
    /\ rr.rdata + rr.rdlength = len
    /\ st.readHi >= 0

\* C4: every call of dnsasm_decompress_name returns, also on packets in
\* which labels and backward pointers form a cycle.
C4_Terminates == (pc = "decompress") ~> Returned

\* a call on a packet with a cycle (a length byte read twice at one offset)
\* has returned
C4_Witness == Returned /\ st.revisit /\ op = "decompress" /\ pc = "done"

(***************************************************************************)
(* Vocabulary of the claims about names                                    *)
(***************************************************************************)
\* the 14-bit target of the two-byte pointer at offset p
PtrTarget(p) == (Byte(packet, p) % 64) * 256 + Byte(packet, p + 1)

\* the big-endian 16-bit value of the two packet bytes at offset i
BE16(i) == Byte(packet, i) * 256 + Byte(packet, i + 1)

RECURSIVE FirstPointerFrom(_)
\* the offset of the first pointer byte met when walking the labels from pos
\* inside the packet; Untouched when a terminator or the end comes first
FirstPointerFrom(pos) ==
    IF pos >= len THEN Untouched
    ELSE IF IsPointer(Byte(packet, pos)) THEN pos
    ELSE IF Byte(packet, pos) = 0 THEN Untouched
    ELSE FirstPointerFrom(pos + 1 + Byte(packet, pos))

RECURSIVE UncompressedEnd(_)
\* the offset just after the terminator of the well-formed uncompressed name
\* at pos (labels of 1..63 bytes, no pointer, terminator inside the packet);
\* Untouched when there is no such name
UncompressedEnd(pos) ==
    IF pos >= len THEN Untouched
    ELSE IF Byte(packet, pos) = 0 THEN pos + 1
    ELSE IF Byte(packet, pos) > MAX_LABEL_LEN THEN Untouched
    ELSE UncompressedEnd(pos + 1 + Byte(packet, pos))

\* a well-formed uncompressed name of at most 255 bytes starts at offset
WellFormedAtOffset ==
    /\ UncompressedEnd(offset) # Untouched
    /\ UncompressedEnd(offset) - offset <= DNS_MAX_NAME_LEN

\* the loop of dnsasm_decompress_name run to its return, sixteen iterations
\* at a time
StepOrStay(s) == IF s.fin THEN s ELSE DecompressStep(packet, len, s)
Step4(s) == StepOrStay(StepOrStay(StepOrStay(StepOrStay(s))))
Step16(s) == Step4(Step4(Step4(Step4(s))))
RECURSIVE RunToReturn(_)
RunToReturn(s) == IF s.fin THEN s ELSE RunToReturn(Step16(s))

\* the result of dnsasm_decompress_name called at the offset t of this packet
NameAt(t) == RunToReturn(DecompressInit(t))

\* C5: for a name with a compression pointer that decompresses successfully,
\* the consumed wire length is the number of bytes from the start offset up to
\* and including the first pointer, whatever is reached through the pointer,
\* and the output is the labels before the pointer followed by the name found
\* at the pointer's target.
C5_WireLenStopsAtFirstPointer ==
    (Succeeded /\ FirstPointerFrom(offset) # Untouched) =>
        LET p == FirstPointerFrom(offset)
            k == p - offset
            t == NameAt(PtrTarget(p))
        IN  /\ st.roffset = k + 2
            /\ t.error = DNSASM_OK
            /\ st.out = SubSeq(packet, offset + 1, offset + k) \o SubSeq(t.out, 1, t.out_len)
            /\ st.out_len = k + t.out_len

\* a success on a name with a label before its first pointer and a chain of
\* three pointers behind it
C5_Witness ==
    /\ Succeeded
    /\ FirstPointerFrom(offset) > offset
    /\ st.ptr_count >= 3
    /\ st.out_len > FirstPointerFrom(offset) - offset + 1

\* C6: for every well-formed uncompressed name of at most 255 bytes inside the
\* buffer, dnsasm_decompress_name succeeds, the output is identical to the
\* encoded bytes, and decompressed and consumed lengths equal the encoded length.
C6_UncompressedRoundTrip ==
    (Returned /\ WellFormedAtOffset) =>
        LET n == UncompressedEnd(offset) - offset
        IN  /\ st.error = DNSASM_OK
            /\ st.out = SubSeq(packet, offset + 1, offset + n)
            /\ st.out_len = n
            /\ st.roffset = n

\* a returned call on a well-formed uncompressed name of exactly 255 bytes
C6_Witness ==
    /\ Returned
    /\ WellFormedAtOffset
    /\ UncompressedEnd(offset) - offset = DNS_MAX_NAME_LEN

\* a call has returned with its cursor on a pointer byte inside the packet
\* after following 127 pointers: it has met a 128th pointer
ReturnedOn128thPointer ==
    /\ Returned
    /\ st.ptr_count >= MAX_PTR_HOPS
    /\ st.pos < len
    /\ IsPointer(Byte(packet, st.pos))

C8_PointersStrictlyBackward ==
    [][(/\ pc = "decompress"
        /\ st.pos < len
        /\ IsPointer(Byte(packet, st.pos)))
       => /\ (st.pos + 1 < len /\ st.ptr_count < MAX_PTR_HOPS /\ PtrTarget(st.pos) >= st.pos)
                => (st'.fin /\ st'.error = DNSASM_ERR_POINTER)
          /\ ~st'.fin => (st'.pos < st.pos /\ st'.pos = PtrTarget(st.pos))]_vars

\* a call ended with InvalidPointer by a pointer that refers to itself
C8_Witness ==
    /\ Returned
    /\ st.error = DNSASM_ERR_POINTER
    /\ PtrTarget(st.pos) = st.pos

\* C9: when a call returns an error, the caller's output (name bytes,
\* name_len, type, class, ttl, rdlength, rdata, wire_len) is as before the call.
C9_ErrorLeavesOutputUntouched ==
    (pc = "done" /\ res.error # DNSASM_OK) =>
        /\ st.out = << >>
        /\ st.out_len = Untouched
        /\ q = QuestionInit
        /\ rr = RRInit

\* C10: dnsasm_parse_question succeeds exactly when the name decompresses with
\* consumed length n and offset + n + 4 <= len; then qtype and qclass are the
\* big-endian values of the 4 bytes after the name, wire_len is n + 4 and the
\* returned offset is offset + n + 4; too few bytes after a decoded name give
\* ShortBuffer, a name error is returned unchanged; the sample query gives
\* qtype 1, qclass 1, wire length 21.
C10_ParseQuestion ==
    (op = "question" /\ pc = "done") =>
        LET n == st.roffset
            room == offset + n + 4 <= len
        IN  /\ (res.error = DNSASM_OK) <=> (st.error = DNSASM_OK /\ room)
            /\ (res.error = DNSASM_OK) =>
                  /\ q.qtype = BE16(offset + n)
                  /\ q.qclass = BE16(offset + n + 2)
                  /\ q.wire_len = n + 4
                  /\ res.roffset = offset + n + 4
                  /\ q.name = st.out
                  /\ q.name_len = st.out_len
            /\ (st.error = DNSASM_OK /\ ~room) => res.error = DNSASM_ERR_SHORT
            /\ (st.error # DNSASM_OK) => res.error = st.error
            /\ (packet = SampleQuery /\ len = Len(SampleQuery) /\ offset = DNS_HEADER_SIZE)
                  => /\ res.error = DNSASM_OK
                     /\ q.qtype = DNS_TYPE_A
                     /\ q.qclass = DNS_CLASS_IN
                     /\ q.wire_len = 21

\* the sample query parsed at offset 12
C10_Witness ==
    /\ op = "question" /\ pc = "done"
    /\ packet = SampleQuery /\ len = Len(SampleQuery) /\ offset = DNS_HEADER_SIZE
    /\ res.error = DNSASM_OK

\* C11: dnsasm_parse_rr, when the name decompresses with consumed length n,
\* succeeds exactly when 10 more bytes and then rdlength further bytes lie
\* inside the buffer and gives ShortBuffer otherwise; on success type, class,
\* ttl and rdlength are the big-endian values of the 10 bytes, the RDATA view
\* is the rdlength packet bytes after them and the consumed length reported
\* for the record is n + 10 + rdlength; the sample response's answer gives
\* ttl 300, rdlength 4 and the rdata 5d b8 d8 22.
C11_ParseRR ==
    (op = "rr" /\ pc = "done" /\ st.error = DNSASM_OK) =>
        LET n == st.roffset
            pos == offset + n
            room == pos + 10 <= len /\ pos + 10 + BE16(pos + 8) <= len
        IN  /\ (res.error = DNSASM_OK) <=> room
            /\ ~room => res.error = DNSASM_ERR_SHORT
            /\ room =>
                  /\ rr.name = st.out
                  /\ rr.name_len = st.out_len
                  /\ rr.rtype = BE16(pos)
                  /\ rr.rclass = BE16(pos + 2)
                  /\ rr.ttl = [hi |-> BE16(pos + 4), lo |-> BE16(pos + 6)]
                  /\ rr.rdlength = BE16(pos + 8)
                  /\ rr.rdata = pos + 10
                  /\ rr.rdata + rr.rdlength <= len
                  /\ rr.wire_len = n + 10 + rr.rdlength
                  /\ res.roffset = offset + n + 10 + rr.rdlength
            /\ (packet = SampleResponse /\ len = Len(SampleResponse) /\ offset = 33)
                  => /\ res.error = DNSASM_OK
                     /\ rr.ttl = [hi |-> 0, lo |-> 300]
                     /\ rr.rdlength = 4
                     /\ SubSeq(packet, rr.rdata + 1, rr.rdata + rr.rdlength)
                            = <<93, 184, 216, 34>>

\* C12: for 16-bit id, flags, qd, an, ns, ar, dnsasm_build_header writes
\* exactly 12 bytes and dnsasm_parse_header of them succeeds with the same six
\* values, qr = flags bit 15, opcode = bits 11..14, aa = bit 10, tc = bit 9,
\* rd = bit 8, ra = bit 7, rcode = bits 0..3: bits 4..6 reach no sub-field.
C12_HeaderRoundTrip ==
    (built.fn = "header") =>
        LET flags == built.args[2]
        IN  /\ built.ret = 12
            /\ Len(packet) = 12
            /\ (op = "header" /\ pc = "done") =>
                  /\ hret.ret = DNSASM_OK
                  /\ <<hdr.id, hdr.flags, hdr.qdcount, hdr.ancount, hdr.nscount, hdr.arcount>>
                        = built.args
                  /\ hdr.qr = flags \div 32768
                  /\ hdr.opcode = (flags % 32768) \div 2048
                  /\ hdr.aa = (flags % 2048) \div 1024
                  /\ hdr.tc = (flags % 1024) \div 512
                  /\ hdr.rd = (flags % 512) \div 256
                  /\ hdr.ra = (flags % 256) \div 128
                  /\ hdr.rcode = flags % 16
                  /\ flags = 32768 * hdr.qr + 2048 * hdr.opcode + 1024 * hdr.aa
                                + 512 * hdr.tc + 256 * hdr.rd + 128 * hdr.ra
                                + 16 * ((flags % 128) \div 16) + hdr.rcode

\* a header built with all of the flags bits 4..6 set and parsed back
C12_Witness ==
    /\ built.fn = "header"
    /\ op = "header" /\ pc = "done"
    /\ built.args[2] = 112
    /\ built.args[1] = 4660
    /\ hdr.qdcount = 1

\* C13: dnsasm_parse_header with a length below 12 returns ShortBuffer, reads
\* no byte and leaves the header as it was; with 12 or more it succeeds and
\* reads only the first 12 bytes.
C13_HeaderLength ==
    (op = "header" /\ pc = "done") =>
        IF len < 12
        THEN /\ hret.ret = DNSASM_ERR_SHORT
             /\ hret.readHi = Untouched
             /\ hdr = HeaderInit
        ELSE /\ hret.ret = DNSASM_OK
             /\ hret.readHi < 12
             /\ hdr.id = BE16(0)
             /\ hdr.arcount = BE16(10)
             /\ (packet = SampleQuery)
                   => hdr.id = 4660 /\ hdr.qr = 0 /\ hdr.rd = 1 /\ hdr.qdcount = 1
             /\ (packet = SampleResponse)
                   => hdr.id = 4660 /\ hdr.qr = 1 /\ hdr.ra = 1 /\ hdr.ancount = 1

\* a call with length 11 on a buffer of 12 bytes or more
C13_Witness ==
    /\ op = "header" /\ pc = "done"
    /\ len = DNS_HEADER_SIZE - 1
    /\ Len(packet) >= DNS_HEADER_SIZE
    /\ hret.ret = DNSASM_ERR_SHORT

\* the ASCII case fold of the claims: 'A'..'Z' to 'a'..'z', every other byte
\* to itself
AsciiFold(c) == IF c \in 65..90 THEN c + 32 ELSE c

\* C14: dnsasm_name_equal reports equal (0) exactly when the lengths are equal
\* and at every index the bytes are identical after folding 'A'..'Z' to
\* 'a'..'z'; '@' and '`', '[' and '{' are unequal, WWW and www equal; the
\* relation is reflexive, symmetric and transitive.
C14_NameEqual ==
    (op = "equal" /\ pc = "done") =>
        LET a == eq.a
            b == eq.b
            Eq(x, y) == NameEqual(x, Len(x), y, Len(y)) = 0
        IN  /\ eq.ret \in {0, 1}
            /\ (eq.ret = 0) <=>
                  /\ Len(a) = Len(b)
                  /\ \A i \in 1..Len(a) : AsciiFold(a[i]) = AsciiFold(b[i])
            /\ (a = <<64>> /\ b = <<96>>) => eq.ret # 0
            /\ (a = <<91>> /\ b = <<123>>) => eq.ret # 0
            /\ (a = <<3, 87, 87, 87>> /\ b = <<3, 119, 119, 119>>) => eq.ret = 0
            /\ (a = b) => eq.ret = 0
            /\ (eq.ret = 0) <=> Eq(b, a)
            /\ \A c \in EqStrings : (eq.ret = 0 /\ Eq(b, c)) => Eq(a, c)

\* '[' compared with '{': different bytes that differ by 32, reported unequal
C14_Witness ==
    /\ op = "equal" /\ pc = "done"
    /\ eq.a = <<91>> /\ eq.b = <<123>>
    /\ eq.ret = 1

RECURSIVE TerminatorFrom(_, _)
\* the offset of the zero terminator met by walking the labels of the entry e
\* from pos; Untouched when the walk leaves the entry first
TerminatorFrom(e, pos) ==
    IF pos >= Len(e) THEN Untouched
    ELSE IF e[pos + 1] = 0 THEN pos
    ELSE TerminatorFrom(e, pos + 1 + e[pos + 1])

RECURSIVE WalkStopFrom(_, _)
\* the first offset of that walk that holds a zero byte or is 255 or more
WalkStopFrom(e, pos) ==
    IF pos >= Len(e) THEN Untouched
    ELSE IF e[pos + 1] = 0 \/ pos >= DNS_MAX_NAME_LEN THEN pos
    ELSE WalkStopFrom(e, pos + 1 + e[pos + 1])

\* the needle of the call equals the entry e taken with the length n
NeedleEquals(e, n) == NameEqual(nf.needle, Len(nf.needle), e, n) = 0

\* the entries (from 1) equal to the needle when taken through their terminator
EqualThroughTerminator ==
    { k \in 1..Len(nf.haystack) :
        NeedleEquals(nf.haystack[k], TerminatorFrom(nf.haystack[k], 0) + 1) }

\* the entries (from 1) equal to the needle when taken up to the stop of the walk
EqualUpToWalkStop ==
    { k \in 1..Len(nf.haystack) :
        NeedleEquals(nf.haystack[k], WalkStopFrom(nf.haystack[k], 0) + 1) }

\* the least element of a non-empty set of numbers
Least(S) == CHOOSE k \in S : \A j \in S : k <= j

C18_WalkBoundedBy255 ==
    ~nf.oob => /\ nf.readHi < DNS_MAX_NAME_LEN
               /\ nf.lenHi <= DNS_MAX_NAME_LEN

\* C16: dnsasm_build_a_record writes exactly name_len + 14 bytes: the name,
\* 00 01, 00 01, the TTL as 4 big-endian bytes, 00 04 and the 4 address
\* bytes; for a well-formed uncompressed name dnsasm_parse_rr at offset 0 of
\* that output succeeds with the same name, type 1, class 1, the same TTL,
\* rdlength 4, RDATA equal to the address and consumed length name_len + 14.
C16_ARecordRoundTrip ==
    (built.fn = "a_record") =>
        LET name == built.args[1]
            ttl == built.args[2]
            ip == built.args[3]
            n == Len(name)
        IN  /\ built.ret = n + 14
            /\ packet = name \o <<0, 1, 0, 1>>
                           \o <<ttl.hi \div 256, ttl.hi % 256, ttl.lo \div 256, ttl.lo % 256>>
                           \o <<0, 4>> \o ip
            /\ (op = "rr" /\ pc = "done" /\ WellFormedAtOffset /\ UncompressedEnd(0) = n) =>
                  /\ res.error = DNSASM_OK
                  /\ rr.name = name
                  /\ rr.name_len = n
                  /\ rr.rtype = 1
                  /\ rr.rclass = 1
                  /\ rr.ttl = ttl
                  /\ rr.rdlength = 4
                  /\ SubSeq(packet, rr.rdata + 1, rr.rdata + rr.rdlength) = ip
                  /\ rr.wire_len = n + 14
                  /\ res.roffset = n + 14

\* a record built for a well-formed name of 255 bytes with the TTL 0x01020304
\* and parsed back
C16_Witness ==
    /\ built.fn = "a_record"
    /\ op = "rr" /\ pc = "done"
    /\ Len(built.args[1]) = DNS_MAX_NAME_LEN
    /\ built.args[2] = [hi |-> 258, lo |-> 772]
    /\ res.error = DNSASM_OK
    /\ rr.name_len = DNS_MAX_NAME_LEN

\* C17 as stated: in a run of dnsasm_decompress_name the cursor never returns
\* to an offset at which it has already read a length byte.
C17_NeverRevisits == ~st.revisit

\* C17: the cursor can return to an offset it has read, but only after it has
\* followed a pointer and copied a label, and a call in which it did returns
\* only CompressionLoop or Overflow: the hop counter or the output cap stops
\* every repeating traversal.
C17_RevisitStoppedByCaps ==
    /\ st.revisit => (st.ptr_count >= 1 /\ st.out_pos >= 1)
    /\ (Returned /\ st.revisit) => st.error \in {DNSASM_ERR_LOOP, DNSASM_ERR_OVERFLOW}
    /\ (Returned /\ st.revisit /\ st.error = DNSASM_ERR_OVERFLOW) => st.out_pos > 128
    /\ (Returned /\ st.revisit /\ st.error = DNSASM_ERR_LOOP)
          => st.ptr_count = MAX_PTR_HOPS + 1

\* a repeating traversal stopped by the hop counter before the output is full
C17_Witness ==
    /\ Returned
    /\ st.revisit
    /\ st.error = DNSASM_ERR_LOOP
    /\ st.out_pos < DNS_MAX_NAME_LEN - MAX_LABEL_LEN

====
